---- MODULE Spec2Model ----
(***************************************************************************)
(* The classification core of app.py: tokenizer, lexicon counter,          *)
(* dominant-category selector, energy resolver, persona mapper and the     *)
(* orchestrator analyze_music_personality.                                 *)
(*                                                                         *)
(* Representation.  A Python str that the code walks character by          *)
(* character (the input text) is a sequence of one-character strings; a    *)
(* str that is only compared (a token, a lexicon word, a category) is a    *)
(* string, built from its characters by Str.  A Python dict is a sequence  *)
(* of <<key, value>> pairs in insertion order, which is the order dict     *)
(* iteration and max() follow.  None is the string "None".                 *)
(***************************************************************************)
EXTENDS Naturals, Sequences, FiniteSets, TLC

VARIABLES
    mood_lexicon,     \* the four module-level dicts
    energy_lexicon,
    genre_lexicon,
    context_lexicon,
    fn,               \* the function of the core being called
    arg,              \* its argument(s)
    ret,              \* [status, value]: pending, returned or raised
    ref               \* an earlier call of the orchestrator, remembered: [text, result]

vars == <<mood_lexicon, energy_lexicon, genre_lexicon, context_lexicon, fn, arg, ret, ref>>

lexicons == <<mood_lexicon, energy_lexicon, genre_lexicon, context_lexicon>>

None == "None"

(***************************************************************************)
(* Bounds of the model.                                                    *)
(***************************************************************************)
\* pieces of text concatenated into one input of a single call
MaxPieces == 3
\* largest count in a directly drawn count map, largest directly drawn score
MaxCount == 2
\* tokens in a directly drawn token sequence
MaxTokens == 2
\* pieces of text in one input of the call-sequence specification
MaxCallPieces == 2

(***************************************************************************)
(* 1. Lexicons (app.py 42-118).                                            *)
(***************************************************************************)
\* Mood words, in declaration order (a dict keeps insertion order).
MoodLexicon ==
    << <<"chill", <<"calm", "relax", "relaxed", "chill", "peaceful", "soft", "soothing", "smooth", "mellow", "gentle", "quiet", "cozy">>>>,
       <<"happy", <<"happy", "bright", "cheerful", "fun", "upbeat", "uplifting", "joyful", "exciting", "excited", "optimistic", "hopeful">>>>,
       <<"sad", <<"sad", "melancholy", "blue", "lonely", "depressed", "heartbroken", "down", "gloomy">>>>,
       <<"intense", <<"intense", "strong", "aggressive", "powerful", "heavy", "hard", "raw", "angry">>>>,
       <<"nostalgic", <<"nostalgic", "old", "retro", "memory", "memories", "throwback", "vintage", "classic", "childhood">>>> >>

\* Energy words.
EnergyLexicon ==
    << <<"high", <<"fast", "loud", "energetic", "dance", "party", "rock", "run", "running", "jog", "workout", "gym", "cardio", "intense", "hype", "powerful", "hard">>>>,
       <<"low", <<"slow", "soft", "quiet", "ambient", "background", "sleep", "sleepy", "bedtime", "chill", "relax", "relaxed", "calm">>>> >>

\* mutant: the reggae category is missing
GenreLexiconNoReggae ==
    << <<"lofi", <<"lofi", "lo-fi", "beat tape", "chillhop">>>>,
       <<"jazz", <<"jazz", "sax", "saxophone", "swing", "bebop">>>>,
       <<"classical", <<"classical", "piano", "orchestra", "symphony", "violin", "cello">>>>,
       <<"ambient", <<"ambient", "drone", "soundscape">>>>,
       <<"rock", <<"rock", "metal", "punk", "hardcore", "alt-rock", "alternative">>>>,
       <<"indie", <<"indie", "indie-rock", "indie-pop">>>>,
       <<"pop", <<"pop", "kpop", "k-pop", "jpop", "j-pop", "c-pop", "cpop">>>>,
       <<"edm", <<"edm", "electronic", "techno", "house", "trance", "dubstep">>>>,
       <<"hiphop", <<"hiphop", "hip-hop", "rap", "trap">>>>,
       <<"rnb", <<"rnb", "r&b", "soul", "neo-soul", "funk">>>>,
       <<"folk", <<"folk", "acoustic", "singer-songwriter">>>>,
       <<"country", <<"country", "bluegrass">>>>,
       <<"latin", <<"latin", "reggaeton", "salsa", "bossa", "bossa nova">>>>,
       <<"soundtrack", <<"soundtrack", "ost", "score", "movie score", "game music">>>> >>

\* Genre words: fifteen categories.
GenreLexicon ==
    << <<"lofi", <<"lofi", "lo-fi", "beat tape", "chillhop">>>>,
       <<"jazz", <<"jazz", "sax", "saxophone", "swing", "bebop">>>>,
       <<"classical", <<"classical", "piano", "orchestra", "symphony", "violin", "cello">>>>,
       <<"ambient", <<"ambient", "drone", "soundscape">>>>,
       <<"rock", <<"rock", "metal", "punk", "hardcore", "alt-rock", "alternative">>>>,
       <<"indie", <<"indie", "indie-rock", "indie-pop">>>>,
       <<"pop", <<"pop", "kpop", "k-pop", "jpop", "j-pop", "c-pop", "cpop">>>>,
       <<"edm", <<"edm", "electronic", "techno", "house", "trance", "dubstep">>>>,
       <<"hiphop", <<"hiphop", "hip-hop", "rap", "trap">>>>,
       <<"rnb", <<"rnb", "r&b", "soul", "neo-soul", "funk">>>>,
       <<"folk", <<"folk", "acoustic", "singer-songwriter">>>>,
       <<"country", <<"country", "bluegrass">>>>,
       <<"latin", <<"latin", "reggaeton", "salsa", "bossa", "bossa nova">>>>,
       <<"reggae", <<"reggae", "dub">>>>,
       <<"soundtrack", <<"soundtrack", "ost", "score", "movie score", "game music">>>> >>

\* Listening contexts.
ContextLexicon ==
    << <<"study", <<"study", "studying", "homework", "exam", "reading", "library">>>>,
       <<"commute", <<"commute", "bus", "train", "subway", "metro", "driving", "car", "walk", "walking">>>>,
       <<"workout", <<"workout", "gym", "run", "running", "jog", "cardio", "exercise">>>>,
       <<"sleep", <<"sleep", "sleepy", "bedtime", "before bed", "night", "fall asleep">>>>,
       <<"relax", <<"relax", "relaxed", "relaxing", "chill", "weekend", "coffee", "cafe", "cozy">>>>,
       <<"party", <<"party", "club", "dancefloor", "festival">>>> >>

(***************************************************************************)
(* Dict helpers.                                                           *)
(***************************************************************************)
Range(s) == {s[i] : i \in 1..Len(s)}

Keys(d) == [i \in 1..Len(d) |-> d[i][1]]

KeySet(d) == {d[i][1] : i \in 1..Len(d)}

\* d[k] for a key the dict holds
Get(d, k) == d[CHOOSE i \in 1..Len(d) : d[i][1] = k][2]

(***************************************************************************)
(* 2. Preprocessing and counting (app.py 124-147).                         *)
(***************************************************************************)
Uppercase ==
    <<"A", "B", "C", "D", "E", "F", "G", "H", "I", "J", "K", "L", "M",
      "N", "O", "P", "Q", "R", "S", "T", "U", "V", "W", "X", "Y", "Z">>

Lowercase ==
    <<"a", "b", "c", "d", "e", "f", "g", "h", "i", "j", "k", "l", "m",
      "n", "o", "p", "q", "r", "s", "t", "u", "v", "w", "x", "y", "z">>

\* string.punctuation; the grave accent, which a TLA+ string cannot hold, is
\* written "GRAVE"
Punctuation ==
    {"!", "\"", "#", "$", "%", "&", "'", "(", ")", "*", "+", ",", "-", ".", "/",
     ":", ";", "<", "=", ">", "?", "@", "[", "\\", "]", "^", "_", "GRAVE", "{", "|",
     "}", "~"}

\* the characters str.split() and str.strip() treat as whitespace (ASCII ones)
Whitespace == {" ", "\t", "\n", "\r", "\f"}

\* a str from its characters
RECURSIVE Str(_)
Str(chars) == IF chars = <<>> THEN "" ELSE Head(chars) \o Str(Tail(chars))

\* str.lower(), one character
lower_char(c) ==
    IF \E i \in 1..Len(Uppercase) : Uppercase[i] = c
    THEN Lowercase[CHOOSE i \in 1..Len(Uppercase) : Uppercase[i] = c]
    ELSE c

\* text.lower()
lower(text) == [i \in 1..Len(text) |-> lower_char(text[i])]

\* mutant: punctuation is replaced by a blank
translate_to_blank(text) ==
    [i \in 1..Len(text) |-> IF text[i] \in Punctuation THEN " " ELSE text[i]]

\* mutant: punctuation is kept
translate_nothing(text) == text

\* text.translate(str.maketrans("", "", string.punctuation)): the characters of
\* the table's third argument are deleted
translate(text) == SelectSeq(text, LAMBDA c : c \notin Punctuation)

\* text.split(): the maximal runs of non-whitespace characters, in order
RECURSIVE split_from(_, _, _)
split_from(text, cur, out) ==
    IF text = <<>>
    THEN IF cur = <<>> THEN out ELSE Append(out, cur)
    ELSE IF Head(text) \in Whitespace
         THEN split_from(Tail(text), <<>>, IF cur = <<>> THEN out ELSE Append(out, cur))
         ELSE split_from(Tail(text), Append(cur, Head(text)), out)

split(text) == split_from(text, <<>>, <<>>)

\* t.strip()
RECURSIVE lstrip(_)
lstrip(t) == IF t # <<>> /\ Head(t) \in Whitespace THEN lstrip(Tail(t)) ELSE t

RECURSIVE rstrip(_)
rstrip(t) ==
    IF t # <<>> /\ t[Len(t)] \in Whitespace THEN rstrip(SubSeq(t, 1, Len(t) - 1)) ELSE t

strip(t) == rstrip(lstrip(t))

\* preprocess, with each token still a sequence of characters
tokenize(text) ==
    SelectSeq(split(translate(lower(text))), LAMBDA t : strip(t) # <<>>)

preprocess(text) ==
    LET toks == tokenize(text) IN [i \in 1..Len(toks) |-> Str(toks[i])]

\* mutant: distinct matching tokens are counted
count_tokens_distinct(tokens, words) == Cardinality(Range(tokens) \cap Range(words))

\* the inner loop of count_from_lexicon: counts[cat] += 1 for every w of tokens
\* that is in words
RECURSIVE count_tokens(_, _)
count_tokens(tokens, words) ==
    IF tokens = <<>> THEN 0
    ELSE (IF Head(tokens) \in Range(words) THEN 1 ELSE 0) + count_tokens(Tail(tokens), words)

\* mutant: the tokens of the previous call are kept and counted again
count_from_lexicon_retained(tokens, lexicon) ==
    LET kept == IF fn = "analyze_music_personality" /\ ret.status = "returned"
                THEN ret.value.tokens \o tokens
                ELSE tokens
    IN  [i \in 1..Len(lexicon) |-> <<lexicon[i][1], count_tokens(kept, lexicon[i][2])>>]

count_from_lexicon(tokens, lexicon) ==
    [i \in 1..Len(lexicon) |-> <<lexicon[i][1], count_tokens(tokens, lexicon[i][2])>>]

\* mutant: a tie goes to the last of the maximal keys
RECURSIVE max_index_last(_, _, _)
max_index_last(d, i, best) ==
    IF i > Len(d) THEN best
    ELSE max_index_last(d, i + 1, IF d[i][2] >= d[best][2] THEN i ELSE best)

get_max_or_none_last(counts_dict) ==
    IF counts_dict = <<>>
    THEN <<None, 0>>
    ELSE LET m == max_index_last(counts_dict, 2, 1)
         IN  <<counts_dict[m][1], counts_dict[m][2]>>

\* mutant: a maximum of 0 selects no category
get_max_or_none_zero(counts_dict) ==
    IF counts_dict = <<>> \/ \A i \in 1..Len(counts_dict) : counts_dict[i][2] = 0
    THEN <<None, 0>>
    ELSE LET m == CHOOSE i \in 1..Len(counts_dict) :
                      /\ \A j \in 1..Len(counts_dict) : counts_dict[j][2] <= counts_dict[i][2]
                      /\ \A j \in 1..(i - 1) : counts_dict[j][2] < counts_dict[i][2]
         IN  <<counts_dict[m][1], counts_dict[m][2]>>

\* max(counts_dict, key=...): the first key, in iteration order, of maximal count
RECURSIVE max_index(_, _, _)
max_index(d, i, best) ==
    IF i > Len(d) THEN best
    ELSE max_index(d, i + 1, IF d[i][2] > d[best][2] THEN i ELSE best)

get_max_or_none(counts_dict) ==
    IF counts_dict = <<>>
    THEN <<None, 0>>
    ELSE LET m == max_index(counts_dict, 2, 1)
         IN  <<counts_dict[m][1], counts_dict[m][2]>>

KeyError == "KeyError"

\* mutant: equal totals count as low
decide_energy_low_on_tie(energy_counts, context_counts) ==
    LET total_high == Get(energy_counts, "high") + Get(context_counts, "workout")
                        + Get(context_counts, "party")
        total_low  == Get(energy_counts, "low") + Get(context_counts, "sleep")
                        + Get(context_counts, "relax") + Get(context_counts, "study")
    IN  IF total_high > total_low THEN "high"
        ELSE IF total_low >= total_high THEN "low"
        ELSE "mixed"

\* mutant: the study count is left out of context_low
decide_energy_no_study(energy_counts, context_counts) ==
    LET total_high == Get(energy_counts, "high") + Get(context_counts, "workout")
                        + Get(context_counts, "party")
        total_low  == Get(energy_counts, "low") + Get(context_counts, "sleep")
                        + Get(context_counts, "relax")
    IN  IF total_high > total_low THEN "high"
        ELSE IF total_low > total_high THEN "low"
        ELSE "mixed"

\* a lookup d[k] raises KeyError when the dict lacks the key
decide_energy(energy_counts, context_counts) ==
    IF ~ /\ {"high", "low"} \subseteq KeySet(energy_counts)
         /\ {"workout", "party", "sleep", "relax", "study"} \subseteq KeySet(context_counts)
    THEN KeyError
    ELSE LET base_high    == Get(energy_counts, "high")
             base_low     == Get(energy_counts, "low")
             context_high == Get(context_counts, "workout") + Get(context_counts, "party")
             context_low  == Get(context_counts, "sleep") + Get(context_counts, "relax")
                               + Get(context_counts, "study")
             total_high   == base_high + context_high
             total_low    == base_low + context_low
         IN  IF total_high > total_low THEN "high"
             ELSE IF total_low > total_high THEN "low"
             ELSE "mixed"

(***************************************************************************)
(* 3. Music persona -> coffee persona (app.py 176-276).  The returned pair *)
(* is <<label, explanation>>; a label is written without its emoji and an *)
(* explanation by its opening words.                                       *)
(***************************************************************************)
MysteryBlend == <<"Mystery Blend Coffee", "From your description, I could not detect any">>

MatchaLatte == <<"Matcha Latte", "You seem to enjoy calm, smooth, and atmospheric music">>

IcedAmericano == <<"Iced Americano", "Your playlist is bright, refreshing, and energetic">>

EspressoShot == <<"Espresso Shot", "Your music is intense and full of impact">>

HandBrewedBlackCoffee ==
    <<"Hand-brewed Black Coffee", "You gravitate towards music that carries stories">>

Mocha == <<"Mocha", "You resonate with emotional or slightly melancholic music">>

CaramelMacchiato == <<"Caramel Macchiato", "You enjoy cheerful, fun, and catchy songs">>

FlatWhite == <<"Flat White", "You appreciate structure, detail, and balance in music">>

HouseBlend == <<"House Blend", "Your music taste seems quite diverse">>

\* mutant: the Caramel Macchiato rule is tried before the Iced Americano rule
map_persona_to_coffee_reordered(main_mood, main_genre, energy_level, main_context, mood_score, genre_score) ==
    IF mood_score = 0 /\ genre_score = 0 THEN MysteryBlend
    ELSE IF /\ main_mood = "chill"
            /\ main_genre \in {"lofi", "jazz", "ambient", "rnb"}
            /\ energy_level # "high"
            /\ main_context \in {"study", "relax", None}
         THEN MatchaLatte
    ELSE IF main_mood = "happy" /\ main_genre \in {"pop", "edm", "rnb", "latin"}
         THEN CaramelMacchiato
    ELSE IF /\ energy_level = "high"
            /\ main_genre \in {"pop", "edm", "latin"}
            /\ main_context \in {"commute", "workout", "party"}
         THEN IcedAmericano
    ELSE IF energy_level = "high" /\ main_genre \in {"rock", "hiphop", "indie"}
         THEN EspressoShot
    ELSE IF main_mood = "nostalgic" \/ main_genre \in {"soundtrack", "folk"}
         THEN HandBrewedBlackCoffee
    ELSE IF main_mood = "sad" THEN Mocha
    ELSE IF main_genre \in {"classical", "jazz"} /\ main_context \in {"study", "relax", "sleep"}
         THEN FlatWhite
    ELSE HouseBlend

map_persona_to_coffee(main_mood, main_genre, energy_level, main_context, mood_score, genre_score) ==
    IF mood_score = 0 /\ genre_score = 0 THEN MysteryBlend
    ELSE IF /\ main_mood = "chill"
            /\ main_genre \in {"lofi", "jazz", "ambient", "rnb"}
            /\ energy_level # "high"
            /\ main_context \in {"study", "relax", None}
         THEN MatchaLatte
    ELSE IF /\ energy_level = "high"
            /\ main_genre \in {"pop", "edm", "latin"}
            /\ main_context \in {"commute", "workout", "party"}
         THEN IcedAmericano
    ELSE IF energy_level = "high" /\ main_genre \in {"rock", "hiphop", "indie"}
         THEN EspressoShot
    ELSE IF main_mood = "nostalgic" \/ main_genre \in {"soundtrack", "folk"}
         THEN HandBrewedBlackCoffee
    ELSE IF main_mood = "sad" THEN Mocha
    ELSE IF main_mood = "happy" /\ main_genre \in {"pop", "edm", "rnb", "latin"}
         THEN CaramelMacchiato
    ELSE IF main_genre \in {"classical", "jazz"} /\ main_context \in {"study", "relax", "sleep"}
         THEN FlatWhite
    ELSE HouseBlend

(***************************************************************************)
(* The orchestrator (app.py 279-314).  An outcome is [status, value]:      *)
(* "returned" with the value, or "raised" with the exception.              *)
(***************************************************************************)
Returned(v) == [status |-> "returned", value |-> v]

Raised(e) == [status |-> "raised", value |-> e]

Pending == [status |-> "pending", value |-> <<>>]

\* lines 288-314: everything after the four counts
analysis_from_counts(tokens, mood_counts, energy_counts, genre_counts, context_counts) ==
    LET mood    == get_max_or_none(mood_counts)
        genre   == get_max_or_none(genre_counts)
        context == get_max_or_none(context_counts)
        energy_level == decide_energy(energy_counts, context_counts)
        persona == map_persona_to_coffee(mood[1], genre[1], energy_level, context[1],
                                         mood[2], genre[2])
    IN  IF energy_level = KeyError THEN Raised(KeyError)
        ELSE Returned([tokens             |-> tokens,
                       mood_counts        |-> mood_counts,
                       energy_counts      |-> energy_counts,
                       genre_counts       |-> genre_counts,
                       context_counts     |-> context_counts,
                       main_mood          |-> mood[1],
                       main_mood_score    |-> mood[2],
                       main_genre         |-> genre[1],
                       main_genre_score   |-> genre[2],
                       main_context       |-> context[1],
                       main_context_score |-> context[2],
                       energy_level       |-> energy_level,
                       coffee             |-> persona[1],
                       explanation        |-> persona[2]])

analyze_music_personality(text) ==
    LET tokens == preprocess(text)
    IN  analysis_from_counts(tokens,
                             count_from_lexicon(tokens, mood_lexicon),
                             count_from_lexicon(tokens, energy_lexicon),
                             count_from_lexicon(tokens, genre_lexicon),
                             count_from_lexicon(tokens, context_lexicon))

(***************************************************************************)
(* Inputs.                                                                 *)
(***************************************************************************)
\* pieces of text: words of the lexicons and words outside them, in upper and
\* lower case, with punctuation inside and after them, and whitespace
Pieces ==
    { <<" ">>,
      <<"\t", "\n">>,
      <<"h", "a", "p", "p", "y", " ">>,
      <<"P", "o", "p", ",", " ">>,
      <<"E", "D", "M", " ">>,
      <<"g", "y", "m">>,
      <<"j", "a", "z", "z">>,
      <<"p", "i", "a", "n", "o">>,
      <<"R", "o", "c", "k", "!">>,
      <<"R", "o", "c", "k", "?">>,
      <<"o", "l", "d", " ">>,
      <<"s", "a", "d", " ">>,
      <<"l", "o", "-", "f", "i">>,
      <<"r", "&", "b">>,
      <<"c", "h", "i", "l", "l", " ">>,
      <<"b", "e", "a", "t", " ", "t", "a", "p", "e">> }

RECURSIVE Concatenations(_, _)
Concatenations(pieces, n) ==
    IF n = 0 THEN {<<>>}
    ELSE LET shorter == Concatenations(pieces, n - 1)
         IN  shorter \cup {t \o p : t \in shorter, p \in pieces}

Texts == Concatenations(Pieces, MaxPieces)

\* the inputs of the call-sequence specification
CallPieces ==
    { <<"j", "a", "z", "z">>,
      <<" ">>,
      <<"g", "y", "m">> }

CallTexts == Concatenations(CallPieces, MaxCallPieces)

\* sequences over a set, up to a length
RECURSIVE SeqsUpTo(_, _)
SeqsUpTo(S, n) ==
    IF n = 0 THEN {<<>>}
    ELSE LET shorter == SeqsUpTo(S, n - 1)
         IN  shorter \cup {Append(s, x) : s \in shorter, x \in S}

\* count maps of any key order, the empty one included
SelectorKeys == {"pop", "edm", "lofi"}

CountMaps ==
    {d \in SeqsUpTo(SelectorKeys \X (0..MaxCount), Cardinality(SelectorKeys)) :
        \A i, j \in 1..Len(d) : i # j => d[i][1] # d[j][1]}

\* count maps with the keys of a lexicon, in its order
CountMapsOf(lexicon) ==
    {[i \in 1..Len(lexicon) |-> <<lexicon[i][1], c[i]>>] :
        c \in [1..Len(lexicon) -> 0..MaxCount]}

\* tokens as a caller other than preprocess may pass them
TokenVocabulary == {"chill", "rock", "Rock", "rocks", "lo-fi", "lofi", "run", "beat tape"}

LexiconNames == {"mood", "energy", "genre", "context"}

LexiconNamed(name) ==
    CASE name = "mood"    -> mood_lexicon
      [] name = "energy"  -> energy_lexicon
      [] name = "genre"   -> genre_lexicon
      [] name = "context" -> context_lexicon

EnergyLevels == {"high", "low", "mixed"}

(***************************************************************************)
(* Single calls: Init draws a function of the core and its input, and the  *)
(* function's action applies it.                                           *)
(***************************************************************************)
NoRef == [set |-> FALSE, text |-> <<>>, result |-> Pending, between |-> FALSE]

InitLexicons ==
    /\ mood_lexicon = MoodLexicon
    /\ energy_lexicon = EnergyLexicon
    /\ genre_lexicon = GenreLexicon
    /\ context_lexicon = ContextLexicon

Init ==
    /\ InitLexicons
    /\ ret = Pending
    /\ ref = NoRef
    /\ \/ fn = "analyze_music_personality" /\ arg \in Texts
       \/ fn = "get_max_or_none" /\ arg \in CountMaps
       \/ fn = "decide_energy"
            /\ arg \in CountMapsOf(EnergyLexicon) \X CountMapsOf(ContextLexicon)
       \/ fn = "count_from_lexicon"
            /\ arg \in SeqsUpTo(TokenVocabulary, MaxTokens) \X LexiconNames
       \/ fn = "map_persona_to_coffee"
            /\ arg \in (KeySet(MoodLexicon) \cup {None}) \X (KeySet(GenreLexicon) \cup {None})
                         \X EnergyLevels \X (KeySet(ContextLexicon) \cup {None})
                         \X (0..MaxCount) \X (0..MaxCount)

Analyze ==
    /\ fn = "analyze_music_personality" /\ ret.status = "pending"
    /\ ret' = analyze_music_personality(arg)
    /\ UNCHANGED <<lexicons, fn, arg, ref>>

GetMax ==
    /\ fn = "get_max_or_none" /\ ret.status = "pending"
    /\ ret' = Returned(get_max_or_none(arg))
    /\ UNCHANGED <<lexicons, fn, arg, ref>>

DecideEnergy ==
    /\ fn = "decide_energy" /\ ret.status = "pending"
    /\ LET e == decide_energy(arg[1], arg[2])
       IN  ret' = IF e = KeyError THEN Raised(e) ELSE Returned(e)
    /\ UNCHANGED <<lexicons, fn, arg, ref>>

Count ==
    /\ fn = "count_from_lexicon" /\ ret.status = "pending"
    /\ ret' = Returned(count_from_lexicon(arg[1], LexiconNamed(arg[2])))
    /\ UNCHANGED <<lexicons, fn, arg, ref>>

MapPersona ==
    /\ fn = "map_persona_to_coffee" /\ ret.status = "pending"
    /\ ret' = Returned(map_persona_to_coffee(arg[1], arg[2], arg[3], arg[4], arg[5], arg[6]))
    /\ UNCHANGED <<lexicons, fn, arg, ref>>

Next == Analyze \/ GetMax \/ DecideEnergy \/ Count \/ MapPersona

Spec == Init /\ [][Next]_vars

(***************************************************************************)
(* A sequence of calls of the orchestrator.  Before a call the observer    *)
(* may remember the call that just returned, to compare a later call of    *)
(* the same text against it; ref.between tells that a call of another text *)
(* was made since.                                                         *)
(***************************************************************************)
InitCalls ==
    /\ InitLexicons
    /\ fn = "analyze_music_personality"
    /\ arg = <<>>
    /\ ret = Pending
    /\ ref = NoRef

AnalyzeCall ==
    \E text \in CallTexts, remember \in BOOLEAN :
        /\ fn = "analyze_music_personality"
        /\ arg' = text
        /\ ret' = analyze_music_personality(text)
        /\ ref' = IF remember /\ ret.status # "pending"
                  THEN [set |-> TRUE, text |-> arg, result |-> ret,
                        between |-> text # arg]
                  ELSE [ref EXCEPT !.between = ref.set /\ (@ \/ text # ref.text)]
        /\ UNCHANGED <<lexicons, fn>>

NextCalls == AnalyzeCall

SpecCalls == InitCalls /\ [][NextCalls]_vars

(***************************************************************************)
(* Properties.                                                             *)
(***************************************************************************)
\* the orchestrator has returned; Result is then its result record
Analyzed == fn = "analyze_music_personality" /\ ret.status = "returned"

Result == ret.value

Called(f) == fn = f /\ ret.status = "returned"

\* the characters of the words used in examples
JazzText == <<"j", "a", "z", "z">>

PianoText == <<"p", "i", "a", "n", "o">>

RockRockText == <<"R", "o", "c", "k", "!", " ", "R", "o", "c", "k", "?">>

\* the nine rules of the persona mapper as the specification lists them
RuleHolds(n, mood, genre, energy, context, mood_score, genre_score) ==
    CASE n = 1 -> mood_score = 0 /\ genre_score = 0
      [] n = 2 -> /\ mood = "chill"
                  /\ genre \in {"lofi", "jazz", "ambient", "rnb"}
                  /\ energy # "high"
                  /\ context \in {"study", "relax", None}
      [] n = 3 -> /\ energy = "high"
                  /\ genre \in {"pop", "edm", "latin"}
                  /\ context \in {"commute", "workout", "party"}
      [] n = 4 -> energy = "high" /\ genre \in {"rock", "hiphop", "indie"}
      [] n = 5 -> mood = "nostalgic" \/ genre \in {"soundtrack", "folk"}
      [] n = 6 -> mood = "sad"
      [] n = 7 -> mood = "happy" /\ genre \in {"pop", "edm", "rnb", "latin"}
      [] n = 8 -> genre \in {"classical", "jazz"} /\ context \in {"study", "relax", "sleep"}
      [] n = 9 -> TRUE

RuleLabels ==
    <<"Mystery Blend Coffee", "Matcha Latte", "Iced Americano", "Espresso Shot",
      "Hand-brewed Black Coffee", "Mocha", "Caramel Macchiato", "Flat White",
      "House Blend">>

FirstRule(mood, genre, energy, context, mood_score, genre_score) ==
    CHOOSE n \in 1..Len(RuleLabels) :
        /\ RuleHolds(n, mood, genre, energy, context, mood_score, genre_score)
        /\ \A m \in 1..(n - 1) :
               ~RuleHolds(m, mood, genre, energy, context, mood_score, genre_score)

ResultRuleHolds(n) ==
    RuleHolds(n, Result.main_mood, Result.main_genre, Result.energy_level,
              Result.main_context, Result.main_mood_score, Result.main_genre_score)

MaxCountOf(d) ==
    IF d = <<>> THEN 0
    ELSE CHOOSE n \in {d[i][2] : i \in 1..Len(d)} : \A i \in 1..Len(d) : d[i][2] <= n

\* the selector's answer for a non-empty count map: the maximum, and the first
\* key in the map's order that has it
IsFirstMaximum(d, answer) ==
    /\ answer[2] = MaxCountOf(d)
    /\ \E i \in 1..Len(d) :
          /\ d[i] = answer
          /\ \A j \in 1..(i - 1) : d[j][2] # answer[2]

\* C2: get_max_or_none returns the maximum count and the first category, in
\* declaration order, that has it; an all-zero map gives the first category
\* with 0 and the empty map gives (None, 0).
C2_FirstDeclaredMaximum ==
    /\ Called("get_max_or_none") =>
          /\ arg = <<>> => ret.value = <<None, 0>>
          /\ arg # <<>> => IsFirstMaximum(arg, ret.value)
          /\ (arg # <<>> /\ \A i \in 1..Len(arg) : arg[i][2] = 0)
                => ret.value = <<arg[1][1], 0>>
    /\ Analyzed =>
          /\ Keys(Result.genre_counts) = Keys(genre_lexicon)
          /\ IsFirstMaximum(Result.mood_counts, <<Result.main_mood, Result.main_mood_score>>)
          /\ IsFirstMaximum(Result.genre_counts, <<Result.main_genre, Result.main_genre_score>>)
          /\ IsFirstMaximum(Result.context_counts,
                            <<Result.main_context, Result.main_context_score>>)
          /\ (/\ Get(Result.genre_counts, "pop") = 1
              /\ Get(Result.genre_counts, "edm") = 1
              /\ Result.main_genre_score = 1
              /\ \A i \in 1..Len(Result.genre_counts) :
                     Result.genre_counts[i][2] = 1
                        => Result.genre_counts[i][1] \in {"pop", "edm"})
                => Result.main_genre = "pop"

\* an analysis in which pop and edm tie at 1 and pop, declared first, wins
C2_Witness ==
    /\ Analyzed
    /\ Get(Result.genre_counts, "pop") = 1
    /\ Get(Result.genre_counts, "edm") = 1
    /\ Result.main_genre_score = 1
    /\ Result.main_genre = "pop"

TotalHigh(energy_counts, context_counts) ==
    Get(energy_counts, "high") + Get(context_counts, "workout") + Get(context_counts, "party")

TotalLow(energy_counts, context_counts) ==
    Get(energy_counts, "low") + Get(context_counts, "sleep") + Get(context_counts, "relax")
        + Get(context_counts, "study")

EnergyAgrees(level, energy_counts, context_counts) ==
    LET h == TotalHigh(energy_counts, context_counts)
        l == TotalLow(energy_counts, context_counts)
    IN  /\ level \in {"high", "low", "mixed"}
        /\ level = "high"  <=> h > l
        /\ level = "low"   <=> l > h
        /\ level = "mixed" <=> h = l

\* C3: decide_energy returns "high" iff total_high > total_low, "low" iff
\* total_low > total_high and "mixed" iff they are equal, and nothing else.
C3_EnergyByTotals ==
    /\ fn = "decide_energy" /\ ret.status # "pending" =>
          /\ ret.status = "returned"
          /\ EnergyAgrees(ret.value, arg[1], arg[2])
    /\ Analyzed => EnergyAgrees(Result.energy_level, Result.energy_counts, Result.context_counts)

\* a call whose totals are equal and not 0, decided by a study count
C3_Witness ==
    /\ Called("decide_energy")
    /\ TotalHigh(arg[1], arg[2]) = TotalLow(arg[1], arg[2])
    /\ Get(arg[2], "study") > 0
    /\ Get(arg[1], "low") = 0 /\ Get(arg[2], "sleep") = 0 /\ Get(arg[2], "relax") = 0
    /\ ret.value = "mixed"

\* the number of positions of tokens that hold a word of the list
Occurrences(tokens, words) ==
    Cardinality({i \in 1..Len(tokens) : \E j \in 1..Len(words) : tokens[i] = words[j]})

CountsAgree(counts, tokens, lexicon) ==
    /\ Len(counts) = Len(lexicon)
    /\ KeySet(counts) = KeySet(lexicon)
    /\ \A i \in 1..Len(lexicon) :
          Get(counts, lexicon[i][1]) = Occurrences(tokens, lexicon[i][2])

\* C4: count_from_lexicon returns a map whose keys are exactly the lexicon's
\* categories and whose value for a category is the number of token occurrences
\* (repeats counted) equal to a word of that category's list.
C4_CountsOccurrences ==
    /\ Called("count_from_lexicon") => CountsAgree(ret.value, arg[1], LexiconNamed(arg[2]))
    /\ Analyzed =>
          /\ CountsAgree(Result.mood_counts, Result.tokens, mood_lexicon)
          /\ CountsAgree(Result.energy_counts, Result.tokens, energy_lexicon)
          /\ CountsAgree(Result.genre_counts, Result.tokens, genre_lexicon)
          /\ CountsAgree(Result.context_counts, Result.tokens, context_lexicon)

\* a token repeated: both occurrences are counted, and the other categories are
\* present with 0
C4_Witness ==
    /\ Called("count_from_lexicon")
    /\ arg = <<(<<"rock", "rock">>), "genre">>
    /\ Get(ret.value, "rock") = 2
    /\ Get(ret.value, "lofi") = 0

\* the lowercased text with its punctuation deleted
Cleaned(text) ==
    SelectSeq([i \in 1..Len(text) |-> lower_char(text[i])], LAMBDA c : c \notin Punctuation)

\* where the words of a cleaned text start, and where the word starting at a ends
WordStarts(d) ==
    {a \in 1..Len(d) : d[a] \notin Whitespace /\ (a = 1 \/ d[a - 1] \in Whitespace)}

WordEnd(d, a) ==
    CHOOSE b \in a..Len(d) :
        /\ \A k \in a..b : d[k] \notin Whitespace
        /\ b = Len(d) \/ d[b + 1] \in Whitespace

WordsOf(text) ==
    LET d      == Cleaned(text)
        starts == WordStarts(d)
    IN  [n \in 1..Cardinality(starts) |->
            LET a == CHOOSE x \in starts : Cardinality({y \in starts : y <= x}) = n
            IN  Str(SubSeq(d, a, WordEnd(d, a)))]

\* C5: preprocess returns the whitespace-separated words of the lowercased text
\* with every punctuation character deleted (not replaced by whitespace), in
\* order and with no empty token; "" gives no token and "Rock! Rock?" gives
\* rock, rock.
C5_TokensAreCleanedWords ==
    Analyzed =>
        /\ Result.tokens = WordsOf(arg)
        /\ \A i \in 1..Len(Result.tokens) : Result.tokens[i] # ""
        /\ arg = <<>> => Result.tokens = <<>>
        /\ arg = RockRockText => Result.tokens = <<"rock", "rock">>

\* the specification's example has been tokenized
C5_Witness ==
    /\ Analyzed
    /\ arg = RockRockText
    /\ Result.tokens = <<"rock", "rock">>

AllWhitespace(text) == \A i \in 1..Len(text) : text[i] \in Whitespace

AllZero(counts) == \A i \in 1..Len(counts) : counts[i][2] = 0

ResultFields ==
    {"tokens", "mood_counts", "energy_counts", "genre_counts", "context_counts",
     "main_mood", "main_mood_score", "main_genre", "main_genre_score",
     "main_context", "main_context_score", "energy_level", "coffee", "explanation"}

\* C6: the orchestrator never raises and returns a complete result; for the
\* empty and for a whitespace-only text the tokens are empty, the four count
\* maps all-zero, the three dominant scores 0, the energy level "mixed" and the
\* persona Mystery Blend.
C6_TotalAndEmptyInput ==
    (fn = "analyze_music_personality" /\ ret.status # "pending") =>
        /\ ret.status = "returned"
        /\ DOMAIN Result = ResultFields
        /\ AllWhitespace(arg) =>
              /\ Result.tokens = <<>>
              /\ AllZero(Result.mood_counts) /\ AllZero(Result.energy_counts)
              /\ AllZero(Result.genre_counts) /\ AllZero(Result.context_counts)
              /\ Result.main_mood_score = 0
              /\ Result.main_genre_score = 0
              /\ Result.main_context_score = 0
              /\ Result.energy_level = "mixed"
              /\ Result.coffee = "Mystery Blend Coffee"

\* a text of whitespace only, analyzed
C6_Witness ==
    /\ Analyzed
    /\ arg # <<>> /\ AllWhitespace(arg)
    /\ Result.coffee = "Mystery Blend Coffee"

\* C9: main_mood, main_genre and main_context are never None; a dimension with
\* no match resolves to its first-declared category (chill, lofi, study) with
\* score 0, and the cascade reads that default like a real match: when rule 1
\* does not fire the persona is what the mapper gives with both scores
\* positive.  "jazz" yields Matcha Latte and "piano" Flat White.
C9_DefaultCategoryIsNeverNone ==
    Analyzed =>
        /\ None \notin {Result.main_mood, Result.main_genre, Result.main_context}
        /\ Result.main_mood_score = 0 =>
              Result.main_mood = "chill" /\ Result.main_mood = mood_lexicon[1][1]
        /\ Result.main_genre_score = 0 =>
              Result.main_genre = "lofi" /\ Result.main_genre = genre_lexicon[1][1]
        /\ Result.main_context_score = 0 =>
              Result.main_context = "study" /\ Result.main_context = context_lexicon[1][1]
        /\ ~(Result.main_mood_score = 0 /\ Result.main_genre_score = 0) =>
              Result.coffee =
                 map_persona_to_coffee(Result.main_mood, Result.main_genre,
                                       Result.energy_level, Result.main_context, 1, 1)[1]
        /\ arg = JazzText => Result.coffee = "Matcha Latte"
        /\ arg = PianoText => Result.coffee = "Flat White"

\* the single word "jazz": no mood word and no context word, yet Matcha Latte
C9_Witness ==
    /\ Analyzed
    /\ arg = JazzText
    /\ Result.main_mood_score = 0 /\ Result.main_context_score = 0
    /\ Result.main_mood = "chill" /\ Result.main_context = "study"
    /\ Result.coffee = "Matcha Latte"

\* the lexicon entries that hold a punctuation character or a blank
PunctuatedEntries ==
    {"lo-fi", "beat tape", "alt-rock", "indie-rock", "indie-pop", "k-pop", "j-pop",
     "c-pop", "hip-hop", "r&b", "neo-soul", "singer-songwriter", "bossa nova",
     "movie score", "game music", "before bed", "fall asleep"}

Pruned(lexicon) ==
    [i \in 1..Len(lexicon) |->
        <<lexicon[i][1], SelectSeq(lexicon[i][2], LAMBDA w : w \notin PunctuatedEntries)>>]

\* C10: no token of preprocess holds a punctuation or whitespace character, so
\* the punctuated lexicon entries match no token: the analysis is the one the
\* lexicons without those entries give.
C10_PunctuatedEntriesNeverMatch ==
    Analyzed =>
        /\ \A t \in Range(tokenize(arg)) :
               \A c \in Range(t) : c \notin Punctuation \cup Whitespace
        /\ \A i \in 1..Len(Result.tokens) : Result.tokens[i] \notin PunctuatedEntries
        /\ ret = analysis_from_counts(
                    Result.tokens,
                    count_from_lexicon(Result.tokens, Pruned(mood_lexicon)),
                    count_from_lexicon(Result.tokens, Pruned(energy_lexicon)),
                    count_from_lexicon(Result.tokens, Pruned(genre_lexicon)),
                    count_from_lexicon(Result.tokens, Pruned(context_lexicon)))

\* the text "lo-fi": its token is lofi, which the entry lo-fi does not match
C10_Witness ==
    /\ Analyzed
    /\ arg = <<"l", "o", "-", "f", "i">>
    /\ Result.tokens = <<"lofi">>
    /\ Get(Result.genre_counts, "lofi") = 1

MoodCategories == {"chill", "happy", "sad", "intense", "nostalgic"}

EnergyCategories == {"high", "low"}

ContextCategories == {"study", "commute", "workout", "sleep", "relax", "party"}

GenreCategories ==
    {"lofi", "jazz", "classical", "ambient", "rock", "indie", "pop", "edm", "hiphop",
     "rnb", "folk", "country", "latin", "reggae", "soundtrack"}

OtherLexiconsAsDeclared ==
    /\ KeySet(mood_lexicon) = MoodCategories /\ Len(mood_lexicon) = 5
    /\ KeySet(energy_lexicon) = EnergyCategories /\ Len(energy_lexicon) = 2
    /\ KeySet(context_lexicon) = ContextCategories /\ Len(context_lexicon) = 6

\* C8 as stated: mood has the 5 categories, energy the 2, context the 6, and
\* genre has 14 categories.
C8_Original ==
    /\ OtherLexiconsAsDeclared
    /\ Len(genre_lexicon) = 14 /\ Cardinality(KeySet(genre_lexicon)) = 14

\* C8, amended: mood has the 5 categories chill, happy, sad, intense, nostalgic;
\* energy the 2 categories high, low; context the 6 categories study, commute,
\* workout, sleep, relax, party; and genre has 15 named categories.
C8_LexiconCategories ==
    /\ OtherLexiconsAsDeclared
    /\ Len(genre_lexicon) = 15
    /\ KeySet(genre_lexicon) = GenreCategories /\ Cardinality(GenreCategories) = 15

\* the genre lexicon has been counted over: its map has the fifteen keys
C8_Witness ==
    /\ Called("count_from_lexicon")
    /\ arg[2] = "genre"
    /\ Len(ret.value) = 15
    /\ KeySet(ret.value) = GenreCategories

====
